---- MODULE Spec2Model ----
(***************************************************************************)
(* Model of content/test/gpu/gpu_tests/skia_gold_integration_test_base.py: *)
(* the identity cache of SkiaGoldIntegrationTestBase (_image_parameters),  *)
(* the JSON key set handed to goldctl, the dispatch on the status returned *)
(* by SkiaGoldSession.RunComparison and the policy that decides whether a  *)
(* Gold failure fails the test.                                            *)
(*                                                                         *)
(* Python values are modelled as follows.  None is the empty tuple and an  *)
(* attribute that may hold None holds <<v>> when it holds the value v.     *)
(* Text that the code only tests for emptiness and formats is a string;    *)
(* text the code takes apart (driver_vendor, driver_version) is a sequence *)
(* of one-character strings.  A function that can raise returns a record   *)
(* whose exc field is the exception's message, "" when it returned.        *)
(***************************************************************************)
EXTENDS Integers, Sequences, FiniteSets, TLC

VARIABLES
    options,            \* cls._parsed_command_line_options and the Gold properties read from it
    additional_args,    \* the browser arguments a caller passes to GenerateBrowserArgs
    process,            \* how far the test runner is with this class: "new", "up" after SetUpProcess, "failed" after a SetUpProcess that raised, "down" after TearDownProcess
    skia_gold_temp_dir, \* cls._skia_gold_temp_dir
    skia_gold_session_manager, \* cls._skia_gold_session_manager
    disk,               \* the directories made by tempfile.mkdtemp() that exist
    browser,            \* cls.browser: None, or what the running browser reports
    image_parameters,   \* cls._image_parameters
    built,              \* the cached object as _ComputeGpuInfo left it when it finished, None if the cache holds no finished object
    today,              \* date.today(), as a day number
    call,               \* the operation that ran last
    page,               \* the page it was given
    outcome,            \* how it ended: "return", or the message of the exception it raised
    status,             \* what RunComparison returned to it, None if RunComparison was not called
    gpu_keys,           \* the key set it built, None if it built none
    answer,             \* the error text and the session state RunComparison left it with, None if RunComparison was not called
    dropped,            \* the cached object it removed from the cache, None if it removed none
    browser_args,       \* the argument list it returned, None if it returned none
    log                 \* what it did that is visible outside, in order

vars == <<options, additional_args, process, skia_gold_temp_dir,
          skia_gold_session_manager, disk, browser, image_parameters, built,
          today, call, page, outcome, status, gpu_keys, answer, dropped,
          browser_args, log>>

\* ------------------------------------------------------------------ bounds

\* Days are numbered 1..MaxDay.
MaxDay == 3

\* Status codes 0..MaxStatus are returned by RunComparison; those above
\* LOCAL_DIFF_FAILURE are codes the dispatcher does not know.
MaxStatus == 7

\* A driver version has 1..MaxParts dot-separated parts.
MaxParts == 3

\* _StripAngleRevisionFromDriver is applied up to MaxApplications times in a
\* row to the same object.
MaxApplications == 2

\* tempfile.mkdtemp() is called up to MaxSetUps times in a process.
MaxSetUps == 2

\* The longest list of arguments a caller passes to GenerateBrowserArgs.
MaxArgs == 2

\* ------------------------------------------------------------ Python values

None == <<>>

Some(v) == <<v>>

\* str(val) of an attribute holding None or a string.
Str(val) == IF val = None THEN "None" ELSE val[1]

\* The text of a sequence of characters.
RECURSIVE Text(_)
Text(chars) == IF chars = <<>> THEN "" ELSE chars[1] \o Text(Tail(chars))

\* chars.startswith(start), for sequences of characters.
StartsWith(chars, start) ==
    /\ Len(start) <= Len(chars)
    /\ SubSeq(chars, 1, Len(start)) = start

\* needle in haystack, for sequences of characters.
Contains(haystack, needle) ==
    \E i \in 1..(Len(haystack) - Len(needle) + 1) :
        SubSeq(haystack, i, i + Len(needle) - 1) = needle

\* chars.split('.'): the parts between the dots, at least one part.
RECURSIVE Split(_)
Split(chars) ==
    IF \A i \in 1..Len(chars) : chars[i] # "."
    THEN <<chars>>
    ELSE LET i == CHOOSE k \in 1..Len(chars) :
                      chars[k] = "." /\ \A j \in 1..(k - 1) : chars[j] # "."
         IN  <<SubSeq(chars, 1, i - 1)>> \o Split(SubSeq(chars, i + 1, Len(chars)))

\* '.'.join(parts)
RECURSIVE Join(_)
Join(parts) ==
    IF parts = <<>> THEN <<>>
    ELSE IF Len(parts) = 1 THEN parts[1]
    ELSE parts[1] \o <<".">> \o Join(Tail(parts))

\* --------------------------------------------------------------- formatting

HexDigits == <<"0", "1", "2", "3", "4", "5", "6", "7",
               "8", "9", "a", "b", "c", "d", "e", "f">>

RECURSIVE HexBody(_)
HexBody(n) ==
    IF n < 16 THEN HexDigits[n + 1]
    ELSE HexBody(n \div 16) \o HexDigits[(n % 16) + 1]

\* hex(int(num))
ToHex(num) == "0x" \o HexBody(num)

ToHexOrNone(num) == IF num = None THEN "None" ELSE ToHex(num[1])

\* A faulty variant: an empty string is rendered as it is.
ToNonEmptyStrOrNone_KeepsEmpty(val) == Str(val)

\* 'None' if val == '' else str(val), for an attribute holding a string.
ToNonEmptyStrOrNone(val) == IF val = Some("") THEN "None" ELSE Str(val)

\* The same for an attribute holding a sequence of characters.
CharsToNonEmptyStrOrNone(val) ==
    IF val = Some(<<>>) THEN "None"
    ELSE IF val = None THEN "None" ELSE Text(val[1])

\* ------------------------------------------------------------- grace period

\* A faulty variant: a page that has a grace_period_end is in its grace
\* period whatever the date.
GracePeriodActive_AnyEndDate(pg, day) == pg.grace_period_end # None

\* A faulty variant: the grace period has ended on its end date already.
GracePeriodActive_EndsBeforeEndDate(pg, day) ==
    pg.grace_period_end # None /\ day < pg.grace_period_end[1]

\* page.grace_period_end and date.today() <= page.grace_period_end
GracePeriodActive(pg, day) ==
    pg.grace_period_end # None /\ day <= pg.grace_period_end[1]

\* ----------------------------------------------------------------- identity

\* A call made by the operation that runs: an entry of the log.
Event(op, what, args) == [op |-> op, what |-> what, args |-> args]

\* _ImageParameters(): a fresh object.
ImageParameters ==
    [vendor_id |-> None, device_id |-> None,
     vendor_string |-> None, device_string |-> None,
     msaa |-> FALSE, model_name |-> None,
     driver_version |-> None, driver_vendor |-> None]

IncompleteError == "GPU device information was incomplete"

NoSystemInfoError == "System info must be supported by the browser"

NoGpuError == "GPU information was absent"

NoneNotIterable == "argument of type 'NoneType' is not iterable"

\* A faulty variant: the strings are looked at before the ids.
SetDeviceIdentity_StringsBeforeIds(params, device, pg) ==
    IF device.vendor_string # "" /\ device.device_string # ""
    THEN [params |-> [params EXCEPT !.vendor_string = Some(device.vendor_string),
                                    !.device_string = Some(device.device_string)],
          exc |-> ""]
    ELSE IF device.vendor_id # 0 /\ device.device_id # 0
    THEN [params |-> [params EXCEPT !.vendor_id = Some(device.vendor_id),
                                    !.device_id = Some(device.device_id)],
          exc |-> ""]
    ELSE IF pg.gpu_process_disabled
    THEN [params |-> [params EXCEPT !.vendor_id = Some(65535),
                                    !.device_id = Some(65535)],
          exc |-> ""]
    ELSE [params |-> params, exc |-> IncompleteError]

\* A faulty variant: a disabled GPU process is looked at before the strings.
SetDeviceIdentity_SoftwareRendererBeforeStrings(params, device, pg) ==
    IF device.vendor_id # 0 /\ device.device_id # 0
    THEN [params |-> [params EXCEPT !.vendor_id = Some(device.vendor_id),
                                    !.device_id = Some(device.device_id)],
          exc |-> ""]
    ELSE IF pg.gpu_process_disabled
    THEN [params |-> [params EXCEPT !.vendor_id = Some(65535),
                                    !.device_id = Some(65535)],
          exc |-> ""]
    ELSE IF device.vendor_string # "" /\ device.device_string # ""
    THEN [params |-> [params EXCEPT !.vendor_string = Some(device.vendor_string),
                                    !.device_string = Some(device.device_string)],
          exc |-> ""]
    ELSE [params |-> params, exc |-> IncompleteError]

\* A faulty variant: the software renderer gets the vendor id only.
SetDeviceIdentity_SoftwareRendererVendorOnly(params, device, pg) ==
    IF device.vendor_id # 0 /\ device.device_id # 0
    THEN [params |-> [params EXCEPT !.vendor_id = Some(device.vendor_id),
                                    !.device_id = Some(device.device_id)],
          exc |-> ""]
    ELSE IF device.vendor_string # "" /\ device.device_string # ""
    THEN [params |-> [params EXCEPT !.vendor_string = Some(device.vendor_string),
                                    !.device_string = Some(device.device_string)],
          exc |-> ""]
    ELSE IF pg.gpu_process_disabled
    THEN [params |-> [params EXCEPT !.vendor_id = Some(65535)], exc |-> ""]
    ELSE [params |-> params, exc |-> IncompleteError]

\* Lines 227-239 of _ComputeGpuInfo: the ids, else the strings, else the ids
\* of the software renderer, set on params; else the exception.  An id of 0
\* and a string of '' are falsy.
SetDeviceIdentity(params, device, pg) ==
    IF device.vendor_id # 0 /\ device.device_id # 0
    THEN [params |-> [params EXCEPT !.vendor_id = Some(device.vendor_id),
                                    !.device_id = Some(device.device_id)],
          exc |-> ""]
    ELSE IF device.vendor_string # "" /\ device.device_string # ""
    THEN [params |-> [params EXCEPT !.vendor_string = Some(device.vendor_string),
                                    !.device_string = Some(device.device_string)],
          exc |-> ""]
    ELSE IF pg.gpu_process_disabled
    THEN [params |-> [params EXCEPT !.vendor_id = Some(65535),
                                    !.device_id = Some(65535)],
          exc |-> ""]
    ELSE [params |-> params, exc |-> IncompleteError]

\* A faulty variant: only the first of the two workarounds turns msaa off.
Msaa_OnlyFirstWorkaround(driver_bug_workarounds) ==
    ~ ("disable_chromium_framebuffer_multisample" \in driver_bug_workarounds)

\* Lines 243-246 of _ComputeGpuInfo.
Msaa(driver_bug_workarounds) ==
    ~ (("disable_chromium_framebuffer_multisample" \in driver_bug_workarounds)
       \/ ("disable_multisample_render_to_texture" \in driver_bug_workarounds))

\* cls._ComputeGpuInfo(page).  cache is cls._image_parameters before the
\* call; the result holds it after the call.  The fresh object is stored in
\* the class attribute before the device is looked at, and the fields are
\* then set on that stored object, so the object stays in the attribute when
\* the call raises for an incomplete device.
ComputeGpuInfo(cache, br, pg) ==
    IF cache # None THEN [cache |-> cache, exc |-> ""]
    ELSE IF br.system_info = None
    THEN [cache |-> cache, exc |-> NoSystemInfoError]
    ELSE IF br.system_info[1].gpu = None
    THEN [cache |-> cache, exc |-> NoGpuError]
    ELSE
      LET system_info == br.system_info[1]
          gpu == system_info.gpu[1]
          device == gpu.devices[1]
          set == SetDeviceIdentity(ImageParameters, device, pg)
      IN  IF set.exc # ""
          THEN [cache |-> Some(set.params), exc |-> set.exc]
          ELSE [cache |-> Some([set.params EXCEPT
                    !.msaa = Msaa(gpu.driver_bug_workarounds),
                    !.model_name = Some(system_info.model_name),
                    !.driver_version = Some(device.driver_version),
                    !.driver_vendor = Some(device.driver_vendor)]),
                exc |-> ""]

\* A faulty variant: the object is left as it is.
StripAngleRevisionFromDriver_KeepsRevision(img_params) ==
    [params |-> img_params, exc |-> ""]

\* A faulty variant: the identity is computed on every call.
GetImageParameters_AlwaysComputes(cache, br, pg) ==
    LET r == ComputeGpuInfo(None, br, pg)
    IN  [cache |-> r.cache, exc |-> r.exc,
         ret |-> IF r.exc = "" THEN r.cache ELSE None,
         log |-> << Event("_ComputeGpuInfo", "", <<>>) >>]

\* cls.GetImageParameters(page): the cache after the call, the exception
\* raised, the object returned (None when it raised) and whether
\* _ComputeGpuInfo was called.
GetImageParameters(cache, br, pg) ==
    LET r == IF cache = None THEN ComputeGpuInfo(cache, br, pg)
             ELSE [cache |-> cache, exc |-> ""]
    IN  [cache |-> r.cache, exc |-> r.exc,
         ret |-> IF r.exc = "" THEN r.cache ELSE None,
         log |-> IF cache = None
                 THEN << Event("_ComputeGpuInfo", "", <<>>) >> ELSE <<>>]

\* A faulty variant: the cache is left as it is.
ResetGpuInfo_KeepsCache == image_parameters

\* cls.ResetGpuInfo()
ResetGpuInfo == None

AngleChars == <<"A", "N", "G", "L", "E">>

\* A faulty variant: the last part is dropped, whatever its length.
StripAngleRevisionFromDriver_DropsLastPart(img_params) ==
    IF ~ Contains(img_params.driver_vendor[1], AngleChars)
          \/ img_params.driver_version = Some(<<>>)
    THEN [params |-> img_params, exc |-> ""]
    ELSE
      LET driver_parts == Split(img_params.driver_version[1])
          kept_parts == SubSeq(driver_parts, 1, Len(driver_parts) - 1)
      IN  [params |-> [img_params EXCEPT !.driver_version = Some(Join(kept_parts))],
           exc |-> ""]

ShortPart(part) == Len(part) <= 8

\* A faulty variant: every part longer than 8 characters is dropped and
\* every other part is kept.
StripAngleRevisionFromDriver_DropsEveryLongPart(img_params) ==
    IF ~ Contains(img_params.driver_vendor[1], AngleChars)
          \/ img_params.driver_version = Some(<<>>)
    THEN [params |-> img_params, exc |-> ""]
    ELSE
      LET driver_parts == Split(img_params.driver_version[1])
          kept_parts == SelectSeq(driver_parts, ShortPart)
      IN  [params |-> [img_params EXCEPT !.driver_version = Some(Join(kept_parts))],
           exc |-> ""]

\* A faulty variant: a driver_vendor of None is taken for a vendor that is
\* not ANGLE, and nothing is raised.
StripAngleRevisionFromDriver_NoneIsNotAngle(img_params) ==
    IF img_params.driver_vendor = None
    THEN [params |-> img_params, exc |-> ""]
    ELSE IF ~ Contains(img_params.driver_vendor[1], AngleChars)
            \/ img_params.driver_version = None
            \/ img_params.driver_version = Some(<<>>)
    THEN [params |-> img_params, exc |-> ""]
    ELSE
      LET driver_parts == Split(img_params.driver_version[1])
          n == IF \A i \in 1..Len(driver_parts) : Len(driver_parts[i]) <= 8
               THEN Len(driver_parts)
               ELSE (CHOOSE k \in 1..Len(driver_parts) :
                        /\ Len(driver_parts[k]) > 8
                        /\ \A j \in 1..(k - 1) : Len(driver_parts[j]) <= 8) - 1
      IN  [params |-> [img_params EXCEPT
                           !.driver_version = Some(Join(SubSeq(driver_parts, 1, n)))],
           exc |-> ""]

\* _StripAngleRevisionFromDriver(img_params): the object after the call.
\* "in" on a driver_vendor of None raises TypeError.
StripAngleRevisionFromDriver(img_params) ==
    IF img_params.driver_vendor = None
    THEN [params |-> img_params, exc |-> NoneNotIterable]
    ELSE IF ~ Contains(img_params.driver_vendor[1], AngleChars)
            \/ img_params.driver_version = None
            \/ img_params.driver_version = Some(<<>>)
    THEN [params |-> img_params, exc |-> ""]
    ELSE
      LET driver_parts == Split(img_params.driver_version[1])
          \* the parts before the first one longer than 8 characters
          n == IF \A i \in 1..Len(driver_parts) : Len(driver_parts[i]) <= 8
               THEN Len(driver_parts)
               ELSE (CHOOSE k \in 1..Len(driver_parts) :
                        /\ Len(driver_parts[k]) > 8
                        /\ \A j \in 1..(k - 1) : Len(driver_parts[j]) <= 8) - 1
          kept_parts == SubSeq(driver_parts, 1, n)
      IN  [params |-> [img_params EXCEPT !.driver_version = Some(Join(kept_parts))],
           exc |-> ""]

\* _GetCombinedHardwareIdentifier(img_params)
GetCombinedHardwareIdentifier(img_params) ==
    "vendor_id:" \o ToHexOrNone(img_params.vendor_id)
        \o ", device_id:" \o ToHexOrNone(img_params.device_id)
        \o ", device_string:" \o ToNonEmptyStrOrNone(img_params.device_string)

\* The date _GracePeriodActive(page) reads: the right operand of its 'and' is
\* evaluated only for a page that has a grace_period_end.
ReadsToday(pg, day) ==
    IF pg.grace_period_end = None THEN <<>>
    ELSE << Event("date.today", "", <<HexDigits[day + 1]>>) >>

\* self.GetGoldJsonKeys(page): the cache after the call (the cached object
\* is the one stripped), the exception raised, the key set returned and the
\* events emitted.
GetGoldJsonKeys(cache, br, pg, day) ==
    LET got == GetImageParameters(cache, br, pg)
    IN  IF got.exc # ""
        THEN [cache |-> got.cache, exc |-> got.exc, keys |-> None, log |-> got.log]
        ELSE
          LET stripped == StripAngleRevisionFromDriver(got.ret[1])
              img_params == stripped.params
              keys ==
                  [vendor_id |-> ToHexOrNone(img_params.vendor_id),
                   device_id |-> ToHexOrNone(img_params.device_id),
                   vendor_string |-> ToNonEmptyStrOrNone(img_params.vendor_string),
                   device_string |-> ToNonEmptyStrOrNone(img_params.device_string),
                   msaa |-> IF img_params.msaa THEN "True" ELSE "False",
                   model_name |-> ToNonEmptyStrOrNone(img_params.model_name),
                   os |-> ToNonEmptyStrOrNone(Some(br.platform.os_name)),
                   os_version |->
                       ToNonEmptyStrOrNone(Some(br.platform.os_version_name)),
                   os_version_detail_string |->
                       ToNonEmptyStrOrNone(Some(br.platform.os_version_detail_string)),
                   driver_version |->
                       CharsToNonEmptyStrOrNone(img_params.driver_version),
                   driver_vendor |->
                       CharsToNonEmptyStrOrNone(img_params.driver_vendor),
                   combined_hardware_identifier |->
                       GetCombinedHardwareIdentifier(img_params)]
          IN  IF stripped.exc # ""
              THEN [cache |-> Some(img_params), exc |-> stripped.exc, keys |-> None,
                    log |-> got.log]
              ELSE [cache |-> Some(img_params), exc |-> "",
                    log |-> got.log \o ReadsToday(pg, day),
                    keys |-> Some(IF GracePeriodActive(pg, day)
                                  THEN keys @@ ("ignore" :> "1")
                                  ELSE keys)]

\* ------------------------------------------------------------------- policy

\* A faulty variant: the grace period is not looked at.
ShouldReportGoldFailure_IgnoresGracePeriod(opts, pg, day) ==
    IF opts.no_skia_gold_failure THEN FALSE ELSE TRUE

\* A faulty variant: --no-skia-gold-failure is not looked at.
ShouldReportGoldFailure_IgnoresBypass(opts, pg, day) ==
    IF pg.grace_period_end # None /\ day <= pg.grace_period_end[1]
    THEN FALSE ELSE TRUE

\* self._ShouldReportGoldFailure(page), with date.today() = day.
ShouldReportGoldFailure(opts, pg, day) ==
    IF opts.no_skia_gold_failure THEN FALSE
    ELSE IF GracePeriodActive(pg, day) THEN FALSE
    ELSE TRUE

GoldFailure == "goldctl command failed, see above for details"

\* ----------------------------------------------------------------- dispatch

\* SkiaGoldSession.StatusCodes
SUCCESS == 0
AUTH_FAILURE == 1
INIT_FAILURE == 2
COMPARISON_FAILURE_REMOTE == 3
COMPARISON_FAILURE_LOCAL == 4
LOCAL_DIFF_FAILURE == 5

\* '%s' of a status code.
RECURSIVE Decimal(_)
Decimal(n) ==
    IF n < 10 THEN HexDigits[n + 1]
    ELSE Decimal(n \div 10) \o HexDigits[(n % 10) + 1]

LoggingError(fmt, args) == Event("logging.error", fmt, args)

CreateLink(name, link) == Event("CreateLink", name, <<link>>)

\* link or failure_message
OrMessage(link, failure_message) == IF link = None THEN failure_message ELSE link[1]

\* A faulty variant: the closest image comes first.
OutputLocalDiffFiles_ClosestFirst(gold_session) ==
    LET failure_message == "Unable to retrieve link"
    IN  << LoggingError("Closest image: %s",
                        <<OrMessage(gold_session.closest_file, failure_message)>>),
           LoggingError("Generated image: %s",
                        <<OrMessage(gold_session.given_file, failure_message)>>),
           LoggingError("Diff image: %s",
                        <<OrMessage(gold_session.diff_file, failure_message)>>) >>

\* _OutputLocalDiffFiles(gold_session, image_name)
OutputLocalDiffFiles(gold_session) ==
    LET failure_message == "Unable to retrieve link"
    IN  << LoggingError("Generated image: %s",
                        <<OrMessage(gold_session.given_file, failure_message)>>),
           LoggingError("Closest image: %s",
                        <<OrMessage(gold_session.closest_file, failure_message)>>),
           LoggingError("Diff image: %s",
                        <<OrMessage(gold_session.diff_file, failure_message)>>) >>

\* A faulty variant: the two link names are taken the other way round.
DispatchRemote_NamesSwapped(error, image_name, gold_session, opts) ==
    IF gold_session.triage_link = None
    THEN << LoggingError("Failed to get triage link for %s, raw output: %s",
                         <<image_name, error>>),
            LoggingError("Reason for no triage link: %s",
                         <<gold_session.omission_reason>>) >>
    ELSE IF opts.tryjob
    THEN << CreateLink("gold_triage_link", gold_session.triage_link[1]) >>
    ELSE << CreateLink("triage_link_for_entire_cl", gold_session.triage_link[1]) >>

\* The COMPARISON_FAILURE_REMOTE arm of the chain.
DispatchRemote(error, image_name, gold_session, opts) ==
    IF gold_session.triage_link = None
    THEN << LoggingError("Failed to get triage link for %s, raw output: %s",
                         <<image_name, error>>),
            LoggingError("Reason for no triage link: %s",
                         <<gold_session.omission_reason>>) >>
    ELSE IF opts.tryjob
    THEN << CreateLink("triage_link_for_entire_cl", gold_session.triage_link[1]) >>
    ELSE << CreateLink("gold_triage_link", gold_session.triage_link[1]) >>

\* A faulty variant: nothing is logged for a status code that has no arm.
DispatchUnknown_LogsNothing(st, error) == <<>>

\* The else arm of the chain.
DispatchUnknown(st, error) ==
    << LoggingError("Given unhandled SkiaGoldSession StatusCode %s with error %s",
                    <<Decimal(st), error>>) >>

\* The if/elif chain of _UploadTestResultToSkiaGold on a truthy status: the
\* events it emits, in order.
Dispatch(st, error, image_name, gold_session, opts) ==
    IF st = AUTH_FAILURE
    THEN << LoggingError("Gold authentication failed with output %s", <<error>>) >>
    ELSE IF st = INIT_FAILURE
    THEN << LoggingError("Gold initialization failed with output %s", <<error>>) >>
    ELSE IF st = COMPARISON_FAILURE_REMOTE
    THEN DispatchRemote(error, image_name, gold_session, opts)
    ELSE IF st = COMPARISON_FAILURE_LOCAL
    THEN << LoggingError("Local comparison failed. Local diff files:", <<>>) >>
             \o OutputLocalDiffFiles(gold_session)
    ELSE IF st = LOCAL_DIFF_FAILURE
    THEN << LoggingError("Local comparison failed and an error occurred during diff generation: %s",
                         <<error>>),
            LoggingError("Local diff files:", <<>>) >>
             \o OutputLocalDiffFiles(gold_session)
    ELSE DispatchUnknown(st, error)

\* A faulty variant: --no-luci-auth is not looked at.
UseLuci_OnlyLocal(opts) == ~ opts.local_pixel_tests

\* use_luci of _UploadTestResultToSkiaGold
UseLuci(opts) == ~ (opts.local_pixel_tests \/ opts.no_luci_auth)

\* str(b) of a bool.
PyBool(b) == IF b THEN "True" ELSE "False"

\* A faulty variant: the policy is asked first and a suppressed failure
\* returns before anything is logged.
AfterComparison_PolicyBeforeDispatch(opts, pg, later, st, error, image_name, gold_session) ==
    IF st = 0
    THEN [outcome |-> "return", log |-> <<>>]
    ELSE
      LET report == ShouldReportGoldFailure(opts, pg, later)
          asked == << Event("_ShouldReportGoldFailure", "", <<PyBool(report)>>) >>
      IN  IF ~ report
          THEN [outcome |-> "return", log |-> asked]
          ELSE [outcome |-> GoldFailure,
                log |-> asked \o Dispatch(st, error, image_name, gold_session, opts)]

\* A faulty variant: a falsy status is dispatched like any other.
AfterComparison_NoReturnOnPass(opts, pg, later, st, error, image_name, gold_session) ==
    LET report == ShouldReportGoldFailure(opts, pg, later)
    IN  [outcome |-> IF report THEN GoldFailure ELSE "return",
         log |-> Dispatch(st, error, image_name, gold_session, opts)
                   \o << Event("_ShouldReportGoldFailure", "", <<PyBool(report)>>) >>]

\* Lines 357-395 of _UploadTestResultToSkiaGold: what follows RunComparison
\* returning st and error, with date.today() = later.  The result is how the
\* call ends and the events emitted, in order.
AfterComparison(opts, pg, later, st, error, image_name, gold_session) ==
    IF st = 0
    THEN [outcome |-> "return", log |-> <<>>]
    ELSE
      LET report == ShouldReportGoldFailure(opts, pg, later)
      IN  [outcome |-> IF report THEN GoldFailure ELSE "return",
           log |-> Dispatch(st, error, image_name, gold_session, opts)
                     \o << Event("_ShouldReportGoldFailure", "", <<PyBool(report)>>) >>]

\* ------------------------------------------------------------ browser args

\* common_browser_args, as sequences of characters.
ENABLE_GPU_BENCHMARKING ==
    <<"-", "-", "e", "n", "a", "b", "l", "e", "-", "g", "p", "u", "-", "b", "e", "n", "c", "h", "m", "a", "r", "k", "i", "n", "g">>

ENSURE_FORCED_COLOR_PROFILE ==
    <<"-", "-", "e", "n", "s", "u", "r", "e", "-", "f", "o", "r", "c", "e", "d", "-", "c", "o", "l", "o", "r", "-", "p", "r", "o", "f", "i", "l", "e">>

FORCE_COLOR_PROFILE_SRGB ==
    <<"-", "-", "f", "o", "r", "c", "e", "-", "c", "o", "l", "o", "r", "-", "p", "r", "o", "f", "i", "l", "e", "=", "s", "r", "g", "b">>

TEST_TYPE_GPU ==
    <<"-", "-", "t", "e", "s", "t", "-", "t", "y", "p", "e", "=", "g", "p", "u">>

\* '--force-color-profile=' of GenerateBrowserArgs
ForceColorProfilePrefix ==
    <<"-", "-", "f", "o", "r", "c", "e", "-", "c", "o", "l", "o", "r", "-", "p", "r", "o", "f", "i", "l", "e", "=">>

\* super().GenerateBrowserArgs(additional_args): the default arguments of
\* the parent class, which are inherited here, followed by the arguments of
\* the caller.
SuperGenerateBrowserArgs(inherited, args) == inherited \o args

\* A faulty variant: the sRGB pair is appended whatever is there.
GenerateBrowserArgs_AlwaysForcesSrgb(inherited, args) ==
    SuperGenerateBrowserArgs(inherited, args)
        \o <<ENABLE_GPU_BENCHMARKING, TEST_TYPE_GPU>>
        \o <<FORCE_COLOR_PROFILE_SRGB, ENSURE_FORCED_COLOR_PROFILE>>

\* cls.GenerateBrowserArgs(additional_args), with the parent class
\* contributing inherited.
GenerateBrowserArgs(inherited, args) ==
    LET default_args == SuperGenerateBrowserArgs(inherited, args)
                           \o <<ENABLE_GPU_BENCHMARKING, TEST_TYPE_GPU>>
        IsForceColorProfile(arg) == StartsWith(arg, ForceColorProfilePrefix)
        force_color_profile_arg == SelectSeq(default_args, IsForceColorProfile)
    IN  IF force_color_profile_arg = <<>>
        THEN default_args \o <<FORCE_COLOR_PROFILE_SRGB, ENSURE_FORCED_COLOR_PROFILE>>
        ELSE default_args

\* The directory tempfile.mkdtemp() makes when it is called for the n-th time.
Mkdtemp(n) == "/tmp/tmp" \o HexDigits[n + 1]

\* A faulty variant: the file is put into the default directory.
PngTempFile_DefaultDir(temp_dir) == "/tmp/tmpa.png"

\* tempfile.NamedTemporaryFile(suffix='.png', dir=temp_dir).name: a new name
\* in temp_dir, or in the default directory when temp_dir is None.
PngTempFile(temp_dir) ==
    (IF temp_dir = None THEN "/tmp" ELSE Mkdtemp(temp_dir[1])) \o "/tmpa.png"

\* gpu_skia_gold_session_manager.GpuSkiaGoldSessionManager(temp_dir, ...)
GpuSkiaGoldSessionManager(temp_dir) == [working_dir |-> temp_dir]

\* cls.GetSkiaGoldSessionManager(): cls._skia_gold_session_manager after the
\* call, which is what the call returns.
GetSkiaGoldSessionManager(manager, temp_dir) ==
    IF manager = None THEN Some(GpuSkiaGoldSessionManager(temp_dir)) ELSE manager

\* The directory a session of the manager works in, as text.
WorkingDir(manager) ==
    IF manager[1].working_dir = None THEN "None"
    ELSE Mkdtemp(manager[1].working_dir[1])

\* A faulty variant: a comparison that the service does not pass is run a
\* second time.
UploadTestResultToSkiaGold_ComparesAgain(cache, manager, temp_dir, br, opts, pg, image_name, day, later, st, error, gold_session) ==
    LET png_temp_file == PngTempFile(temp_dir)
        wrote == << Event("WritePngFile", png_temp_file, <<>>) >>
        got == GetGoldJsonKeys(cache, br, pg, day)
        managed == GetSkiaGoldSessionManager(manager, temp_dir)
        session == << Event("GetSkiaGoldSession", WorkingDir(managed), <<>>) >>
        ran == << Event("RunComparison", image_name,
                        <<png_temp_file, PyBool(UseLuci(opts))>>) >>
        after == AfterComparison(opts, pg, later, st, error, image_name, gold_session)
    IN  IF got.exc # ""
        THEN [cache |-> got.cache, manager |-> manager, outcome |-> got.exc,
              status |-> None, keys |-> None, log |-> wrote \o got.log]
        ELSE [cache |-> got.cache, manager |-> managed, outcome |-> after.outcome,
              status |-> Some(st), keys |-> got.keys,
              log |-> wrote \o got.log \o session \o ran
                        \o (IF st = 0 THEN <<>> ELSE ran) \o after.log]

\* self._UploadTestResultToSkiaGold(image_name, screenshot, page).  manager
\* and temp_dir are cls._skia_gold_session_manager and
\* cls._skia_gold_temp_dir before the call; day is date.today() when the key
\* set is built and later is date.today() when the policy is evaluated; st
\* and error are what RunComparison returns.  The result is the cache and the
\* manager after the call, how the call ended, the status it saw, the key set
\* it built and the events it emitted.
UploadTestResultToSkiaGold(cache, manager, temp_dir, br, opts, pg, image_name, day, later, st, error, gold_session) ==
    LET png_temp_file == PngTempFile(temp_dir)
        wrote == << Event("WritePngFile", png_temp_file, <<>>) >>
        got == GetGoldJsonKeys(cache, br, pg, day)
        managed == GetSkiaGoldSessionManager(manager, temp_dir)
        session == << Event("GetSkiaGoldSession", WorkingDir(managed), <<>>) >>
        ran == << Event("RunComparison", image_name,
                        <<png_temp_file, PyBool(UseLuci(opts))>>) >>
        after == AfterComparison(opts, pg, later, st, error, image_name, gold_session)
    IN  IF got.exc # ""
        THEN [cache |-> got.cache, manager |-> manager, outcome |-> got.exc,
              status |-> None, keys |-> None, log |-> wrote \o got.log]
        ELSE [cache |-> got.cache, manager |-> managed, outcome |-> after.outcome,
              status |-> Some(st), keys |-> got.keys,
              log |-> wrote \o got.log \o session \o ran \o after.log]

\* ------------------------------------------------------------------- inputs

Chars(text) ==
    CASE text = "" -> <<>>
      [] text = "NVIDIA" -> <<"N", "V", "I", "D", "I", "A">>
      [] text = "ANGLE" -> <<"A", "N", "G", "L", "E">>
      [] text = "1.2" -> <<"1", ".", "2">>
      [] text = "b50541b2d6c4" ->
            <<"b", "5", "0", "5", "4", "1", "b", "2", "d", "6", "c", "4">>
      [] text = "2.1.0.b50541b2d6c4" ->
            <<"2", ".", "1", ".", "0", ".",
              "b", "5", "0", "5", "4", "1", "b", "2", "d", "6", "c", "4">>

\* browser.platform
Platform == [os_name |-> "linux", os_version_name |-> "focal",
             os_version_detail_string |-> ""]

\* A running browser whose system info holds one GPU device.
Browser(device, workarounds, model_name) ==
    [system_info |->
         Some([gpu |-> Some([devices |-> <<device>>,
                             driver_bug_workarounds |-> workarounds]),
               model_name |-> model_name]),
     platform |-> Platform]

Device(vendor_id, device_id, vendor_string, device_string, vendor, version) ==
    [vendor_id |-> vendor_id, device_id |-> device_id,
     vendor_string |-> vendor_string, device_string |-> device_string,
     driver_vendor |-> Chars(vendor), driver_version |-> Chars(version)]

\* Every combination of ids (0: not reported) and strings ("": not
\* reported), with four drivers (one that reports nothing, one whose version
\* is a revision only) and the workaround sets that matter.
Devices ==
    { Device(v, d, vs, ds, drv[1], drv[2]) :
        v \in {0, 32902, 4318}, d \in {0, 22802},
        vs \in {"", "Intel"}, ds \in {"", "HD 630"},
        drv \in {<<"NVIDIA", "1.2">>, <<"ANGLE", "2.1.0.b50541b2d6c4">>,
                 <<"", "">>, <<"ANGLE", "b50541b2d6c4">>} }

IdentityBrowsers ==
    { Browser(dev, w, "") :
        dev \in Devices,
        w \in {{}, {"disable_chromium_framebuffer_multisample"},
               {"disable_multisample_render_to_texture", "other_workaround"}} }
    \cup { [system_info |-> None, platform |-> Platform],
           [system_info |-> Some([gpu |-> None, model_name |-> ""]),
            platform |-> Platform] }

\* A browser that reports both ids and one that reports neither ids nor
\* strings.
DispatchBrowsers ==
    { Browser(Device(32902, 22802, "", "", "NVIDIA", "1.2"), {}, "Precision"),
      Browser(Device(0, 0, "", "Intel", "ANGLE", "2.1.0.b50541b2d6c4"),
              {"disable_multisample_render_to_texture"}, "") }

Days == 1..MaxDay

Pages == [gpu_process_disabled : BOOLEAN,
          grace_period_end : {None} \cup { Some(d) : d \in Days }]

Statuses == 0..MaxStatus

Links(names) == {None} \cup { Some(n) : n \in names }

\* The session as far as the branch taken for st reads it.
Sessions(st) ==
    [triage_link : IF st = COMPARISON_FAILURE_REMOTE
                   THEN Links({"https://gold/triage"}) ELSE {None},
     omission_reason : {"No triage link available"},
     given_file : IF st \in {COMPARISON_FAILURE_LOCAL, LOCAL_DIFF_FAILURE}
                  THEN Links({"file://given.png"}) ELSE {None},
     closest_file : IF st \in {COMPARISON_FAILURE_LOCAL, LOCAL_DIFF_FAILURE}
                    THEN Links({"file://closest.png"}) ELSE {None},
     diff_file : IF st \in {COMPARISON_FAILURE_LOCAL, LOCAL_DIFF_FAILURE}
                 THEN Links({"file://diff.png"}) ELSE {None}]

Errors == {"", "goldctl output"}

AllOptions == [no_skia_gold_failure : BOOLEAN, local_pixel_tests : BOOLEAN,
               no_luci_auth : BOOLEAN, tryjob : BOOLEAN]

\* ------------------------------------------------------------------ actions

\* What a call leaves behind for the test runner.
record == <<call, page, outcome, status, gpu_keys, answer, dropped, browser_args, log>>

\* What the command line and the caller fix for the whole run.
given == <<options, additional_args>>

\* The scratch directory of the process.
scratch == <<process, skia_gold_temp_dir, disk>>

InitWith(opts) ==
    /\ options \in opts
    /\ additional_args = <<>>
    /\ process = "new"
    /\ skia_gold_temp_dir = None
    /\ skia_gold_session_manager = None
    /\ disk = {}
    /\ browser_args = None
    /\ browser = None
    /\ image_parameters = None
    /\ built = None
    /\ today = 1
    /\ call = "idle"
    /\ page = None
    /\ outcome = "return"
    /\ status = None
    /\ gpu_keys = None
    /\ answer = None
    /\ dropped = None
    /\ log = <<>>

SetUpFailed == "SetUpProcess failed"

TearDownFailed == "super().TearDownProcess failed"

RmtreeOfNone == "rmtree: expected str, bytes or os.PathLike object, not NoneType"

RmtreeOfMissing == "rmtree: No such file or directory"

\* What a call that is no test leaves behind for the test runner.
Leaves(name, how, events) ==
    /\ call' = name
    /\ outcome' = how
    /\ log' = events
    /\ page' = None
    /\ status' = None
    /\ gpu_keys' = None
    /\ answer' = None
    /\ dropped' = None
    /\ browser_args' = None

\* cls.SetUpProcess().  The browser that comes up reports br; fails_at names
\* the step that raises, "" if none does.  The steps before StartBrowser
\* stand for ForceUntilExitSRGB, super().SetUpProcess() and
\* CustomizeBrowserArgs.
SetUpProcess(br, fails_at) ==
    /\ call = "idle"
    /\ process \in {"new", "down"}
    /\ browser = None
    /\ \E n \in { (IF skia_gold_temp_dir = None THEN 0 ELSE skia_gold_temp_dir[1]) + 1 } :
           /\ n <= MaxSetUps
           /\ IF fails_at = "super().SetUpProcess"
              THEN /\ Leaves("SetUpProcess", SetUpFailed, <<>>)
                   /\ process' = "failed"
                   /\ UNCHANGED <<browser, skia_gold_temp_dir, disk>>
              ELSE IF fails_at = "SetStaticServerDirs"
              THEN /\ Leaves("SetUpProcess", SetUpFailed,
                             << Event("StartBrowser", "", <<>>) >>)
                   /\ process' = "failed"
                   /\ browser' = Some(br)
                   /\ UNCHANGED <<skia_gold_temp_dir, disk>>
              ELSE /\ Leaves("SetUpProcess", "return",
                             << Event("StartBrowser", "", <<>>),
                                Event("mkdtemp", Mkdtemp(n), <<>>) >>)
                   /\ process' = "up"
                   /\ browser' = Some(br)
                   /\ skia_gold_temp_dir' = Some(n)
                   /\ disk' = disk \cup {n}
    /\ UNCHANGED <<given, skia_gold_session_manager, image_parameters, built, today>>

\* cls.TearDownProcess().  super().TearDownProcess() belongs to the
\* superclass: it raises when super_fails, it stops the browser with
\* cls.StopBrowser() when stops, and it leaves everything else of this class
\* alone.
TearDownProcess(super_fails, stops) ==
    /\ call = "idle"
    /\ process \in {"up", "failed"}
    /\ process' = "down"
    /\ IF stops /\ ~ super_fails
       THEN /\ browser' = None
            /\ image_parameters' = ResetGpuInfo
            /\ built' = None
       ELSE UNCHANGED <<browser, image_parameters, built>>
    /\ IF super_fails
       THEN /\ Leaves("TearDownProcess", TearDownFailed, <<>>)
            /\ UNCHANGED disk
       ELSE IF skia_gold_temp_dir = None
       THEN /\ Leaves("TearDownProcess", RmtreeOfNone, <<>>)
            /\ UNCHANGED disk
       ELSE IF skia_gold_temp_dir[1] \notin disk
       THEN /\ Leaves("TearDownProcess", RmtreeOfMissing, <<>>)
            /\ UNCHANGED disk
       ELSE /\ Leaves("TearDownProcess", "return",
                      << Event("rmtree", Mkdtemp(skia_gold_temp_dir[1]), <<>>) >>)
            /\ disk' = disk \ {skia_gold_temp_dir[1]}
    /\ UNCHANGED <<given, skia_gold_temp_dir, skia_gold_session_manager, today>>

\* cls.GetSkiaGoldSessionManager(), called on its own.
CallGetSkiaGoldSessionManager ==
    /\ call = "idle"
    /\ skia_gold_session_manager' =
           GetSkiaGoldSessionManager(skia_gold_session_manager, skia_gold_temp_dir)
    /\ Leaves("GetSkiaGoldSessionManager", "return", <<>>)
    /\ UNCHANGED <<given, scratch, browser, image_parameters, built, today>>

\* cls.StartBrowser(), as a test that restarts the browser calls it: the
\* browser that comes up reports br.
StartBrowser(br) ==
    /\ call = "idle"
    /\ process = "up"
    /\ browser = None
    /\ browser' = Some(br)
    /\ UNCHANGED <<given, scratch, skia_gold_session_manager, image_parameters,
                   built, today, record>>

\* What a call that only resets the cache leaves behind for the test runner.
Resets(name) ==
    /\ image_parameters' = ResetGpuInfo
    /\ built' = IF image_parameters' = None THEN None ELSE built
    /\ dropped' = IF image_parameters' = None THEN image_parameters ELSE None
    /\ call' = name
    /\ page' = None
    /\ outcome' = "return"
    /\ status' = None
    /\ gpu_keys' = None
    /\ answer' = None
    /\ browser_args' = None
    /\ log' = <<>>

\* cls.StopBrowser()
StopBrowser ==
    /\ call = "idle"
    /\ browser' = None
    /\ Resets("StopBrowser")
    /\ UNCHANGED <<given, scratch, skia_gold_session_manager, today>>

\* cls.ResetGpuInfo(), called on its own.
CallResetGpuInfo ==
    /\ call = "idle"
    /\ Resets("ResetGpuInfo")
    /\ UNCHANGED <<given, scratch, skia_gold_session_manager, browser, today>>

\* The cached object as _ComputeGpuInfo left it, after a call of
\* GetImageParameters on cache: a call that finds the cache empty runs
\* _ComputeGpuInfo, which leaves a finished object only when it returns.
BuiltAfter(cache, br, pg, was) ==
    IF cache # None THEN was
    ELSE LET computed == ComputeGpuInfo(cache, br, pg)
         IN  IF computed.exc = "" THEN computed.cache ELSE None

\* cls.GetImageParameters(page), called on its own while a browser runs.
CallGetImageParameters(pg) ==
    /\ call = "idle"
    /\ process = "up"
    /\ browser # None
    /\ \E r \in { GetImageParameters(image_parameters, browser[1], pg) } :
           /\ image_parameters' = r.cache
           /\ outcome' = IF r.exc = "" THEN "return" ELSE r.exc
           /\ log' = r.log
    /\ built' = BuiltAfter(image_parameters, browser[1], pg, built)
    /\ call' = "GetImageParameters"
    /\ page' = Some(pg)
    /\ status' = None
    /\ gpu_keys' = None
    /\ answer' = None
    /\ dropped' = None
    /\ browser_args' = None
    /\ UNCHANGED <<given, scratch, skia_gold_session_manager, browser, today>>

\* A test calls self._UploadTestResultToSkiaGold while a browser runs.  The
\* date may change while the call runs: it is today when the key set is
\* built and later when the policy is evaluated.
CallUploadTestResultToSkiaGold(pg, st, error, gold_session, later) ==
    /\ call = "idle"
    /\ process = "up"
    /\ browser # None
    /\ later \in {today, today + 1} \cap Days
    /\ \E r \in { UploadTestResultToSkiaGold(image_parameters, skia_gold_session_manager,
                                                skia_gold_temp_dir, browser[1], options,
                                                pg, "image_name", today, later,
                                                st, error, gold_session) } :
           /\ image_parameters' = r.cache
           /\ skia_gold_session_manager' = r.manager
           /\ outcome' = r.outcome
           /\ status' = r.status
           /\ gpu_keys' = r.keys
           /\ log' = r.log
           /\ answer' = IF r.status = None THEN None
                         ELSE Some([error |-> error, gold_session |-> gold_session])
    /\ built' = BuiltAfter(image_parameters, browser[1], pg, built)
    /\ dropped' = None
    /\ today' = later
    /\ call' = "_UploadTestResultToSkiaGold"
    /\ page' = Some(pg)
    /\ browser_args' = None
    /\ UNCHANGED <<given, scratch, browser>>

\* The test runner has taken the result of the call and goes on to its next
\* step; what the call left behind for it is dropped.
ReturnToRunner ==
    /\ call # "idle"
    /\ call' = "idle"
    /\ page' = None
    /\ outcome' = "return"
    /\ status' = None
    /\ gpu_keys' = None
    /\ answer' = None
    /\ dropped' = None
    /\ browser_args' = None
    /\ log' = <<>>
    /\ UNCHANGED <<given, scratch, skia_gold_session_manager, browser,
                   image_parameters, built, today>>

\* Midnight passes between two calls.
Tick ==
    /\ call = "idle"
    /\ today < MaxDay
    /\ today' = today + 1
    /\ UNCHANGED <<given, scratch, skia_gold_session_manager, browser,
                   image_parameters, built, record>>

\* _StripAngleRevisionFromDriver(img_params), applied to the object that
\* image_parameters holds.
CallStripAngleRevisionFromDriver ==
    /\ call \in {"idle", "_StripAngleRevisionFromDriver"}
    /\ Len(log) < MaxApplications
    /\ image_parameters # None
    /\ \E r \in { StripAngleRevisionFromDriver(image_parameters[1]) } :
           /\ image_parameters' = Some(r.params)
           /\ outcome' = IF r.exc = "" THEN "return" ELSE r.exc
    /\ log' = Append(log, Event("_StripAngleRevisionFromDriver", "", <<>>))
    /\ call' = "_StripAngleRevisionFromDriver"
    /\ UNCHANGED <<given, scratch, skia_gold_session_manager, browser, built,
                   today, page, status, gpu_keys, answer, dropped, browser_args>>

\* cls.GenerateBrowserArgs(additional_args).  inherited is what the parent
\* class puts before the arguments of the caller; the log keeps what the
\* parent class returned.
CallGenerateBrowserArgs(inherited) ==
    /\ call = "idle"
    /\ browser_args' = Some(GenerateBrowserArgs(inherited, additional_args))
    /\ log' = << Event("super().GenerateBrowserArgs", "",
                       SuperGenerateBrowserArgs(inherited, additional_args)) >>
    /\ call' = "GenerateBrowserArgs"
    /\ outcome' = "return"
    /\ page' = None
    /\ status' = None
    /\ gpu_keys' = None
    /\ answer' = None
    /\ dropped' = None
    /\ UNCHANGED <<given, scratch, skia_gold_session_manager, browser,
                   image_parameters, built, today>>

\* ----------------------------------------------------------- specifications

\* Runs with every status code and every option, on DispatchBrowsers.
Init == InitWith(AllOptions)

Next ==
    \/ \E br \in DispatchBrowsers : SetUpProcess(br, "")
    \/ \E br \in DispatchBrowsers : StartBrowser(br)
    \/ StopBrowser
    \/ CallResetGpuInfo
    \/ \E pg \in Pages : CallGetImageParameters(pg)
    \/ \E pg \in Pages, st \in Statuses, error \in Errors, later \in Days :
          \E gold_session \in Sessions(st) :
              CallUploadTestResultToSkiaGold(pg, st, error, gold_session, later)
    \/ ReturnToRunner
    \/ Tick

Spec == Init /\ [][Next]_vars

\* Runs on every browser of IdentityBrowsers, with a passing, a failing and
\* an unknown status code.
IdentityOptions == { o \in AllOptions : ~ o.local_pixel_tests /\ ~ o.no_luci_auth /\ ~ o.tryjob }

InitIdentity == InitWith(IdentityOptions)

NextIdentity ==
    \/ \E br \in IdentityBrowsers : SetUpProcess(br, "")
    \/ \E br \in IdentityBrowsers : StartBrowser(br)
    \/ StopBrowser
    \/ CallResetGpuInfo
    \/ \E pg \in Pages : CallGetImageParameters(pg)
    \/ \E pg \in Pages, st \in {SUCCESS, AUTH_FAILURE}, later \in Days :
          \E gold_session \in Sessions(st) :
              CallUploadTestResultToSkiaGold(pg, st, "", gold_session, later)
    \/ ReturnToRunner
    \/ Tick

SpecIdentity == InitIdentity /\ [][NextIdentity]_vars

\* A part of n characters.
Part(n) == [i \in 1..n |-> "b"]

\* The lengths of a part: none, one, and the two around the 8 characters
\* that _StripAngleRevisionFromDriver compares with.
PartLengths == {0, 1, 8, 9}

\* The versions of 1..MaxParts parts, and the one of the docstring's kind.
DriverVersions ==
    { Join([i \in DOMAIN lengths |-> Part(lengths[i])]) :
        lengths \in UNION { [1..n -> PartLengths] : n \in 1..MaxParts } }
    \cup { Chars("2.1.0.b50541b2d6c4") }

AngleVendors == { AngleChars,
                  <<"G", "o", "o", "g", "l", "e", " ", "(">> \o AngleChars \o <<")">> }

OtherVendors == { <<>>, Chars("NVIDIA"), <<"a", "n", "g", "l", "e">> }

\* Built identities that differ in their driver.
StripInputs ==
    { [ImageParameters EXCEPT
           !.vendor_id = Some(32902), !.device_id = Some(22802),
           !.msaa = TRUE, !.model_name = Some(""),
           !.driver_vendor = Some(vendor), !.driver_version = Some(version)] :
        vendor \in AngleVendors \cup OtherVendors, version \in DriverVersions }

\* Runs that apply _StripAngleRevisionFromDriver to an identity as
\* _ComputeGpuInfo has left it in the cache.
InitStrip ==
    /\ options \in IdentityOptions
    /\ additional_args = <<>>
    /\ process = "up"
    /\ skia_gold_temp_dir = Some(1)
    /\ skia_gold_session_manager = None
    /\ disk = {1}
    /\ browser_args = None
    /\ browser = Some(Browser(Device(32902, 22802, "", "", "", ""), {}, ""))
    /\ image_parameters \in { Some(params) : params \in StripInputs }
    /\ built = image_parameters
    /\ today = 1
    /\ call = "idle"
    /\ page = None
    /\ outcome = "return"
    /\ status = None
    /\ gpu_keys = None
    /\ answer = None
    /\ dropped = None
    /\ log = <<>>

NextStrip ==
    \/ CallStripAngleRevisionFromDriver
    \/ ReturnToRunner

SpecStrip == InitStrip /\ [][NextStrip]_vars

\* The arguments a caller passes: the two colour profile arguments, another
\* colour profile, the switch without a value, the two arguments that are
\* always appended and an unrelated one.
CallerArgs ==
    { FORCE_COLOR_PROFILE_SRGB,
      <<"-", "-", "f", "o", "r", "c", "e", "-", "c", "o", "l", "o", "r", "-", "p", "r", "o", "f", "i", "l", "e", "=", "h", "d", "r", "1", "0">>,
      <<"-", "-", "f", "o", "r", "c", "e", "-", "c", "o", "l", "o", "r", "-", "p", "r", "o", "f", "i", "l", "e">>,
      ENSURE_FORCED_COLOR_PROFILE,
      ENABLE_GPU_BENCHMARKING,
      TEST_TYPE_GPU,
      <<"-", "-", "d", "i", "s", "a", "b", "l", "e", "-", "g", "p", "u">> }

\* The lists of at most n of them.
RECURSIVE ArgLists(_)
ArgLists(n) ==
    IF n = 0 THEN { <<>> }
    ELSE ArgLists(n - 1)
           \cup { Append(args, arg) : args \in ArgLists(n - 1), arg \in CallerArgs }

\* What the parent class puts before the arguments of the caller: nothing,
\* an unrelated argument, or a colour profile of its own.
InheritedArgs ==
    { <<>>,
      << <<"-", "-", "d", "i", "s", "a", "b", "l", "e", "-", "g", "p", "u">> >>,
      << <<"-", "-", "f", "o", "r", "c", "e", "-", "c", "o", "l", "o", "r", "-", "p", "r", "o", "f", "i", "l", "e", "=", "s", "c", "r", "g", "b", "-", "l", "i", "n", "e", "a", "r">> >> }

\* Runs that call GenerateBrowserArgs with every list of caller arguments.
InitArgs ==
    /\ options \in { o \in IdentityOptions : ~ o.no_skia_gold_failure }
    /\ additional_args \in ArgLists(MaxArgs)
    /\ process = "new"
    /\ skia_gold_temp_dir = None
    /\ skia_gold_session_manager = None
    /\ disk = {}
    /\ browser_args = None
    /\ browser = None
    /\ image_parameters = None
    /\ built = None
    /\ today = 1
    /\ call = "idle"
    /\ page = None
    /\ outcome = "return"
    /\ status = None
    /\ gpu_keys = None
    /\ answer = None
    /\ dropped = None
    /\ log = <<>>

NextArgs ==
    \/ \E inherited \in InheritedArgs : CallGenerateBrowserArgs(inherited)
    \/ ReturnToRunner

SpecArgs == InitArgs /\ [][NextArgs]_vars

\* A browser whose device is incomplete, next to those of DispatchBrowsers.
ProcessBrowsers ==
    DispatchBrowsers \cup { Browser(Device(0, 0, "", "", "NVIDIA", "1.2"), {}, "") }

ProcessPages == { pg \in Pages : pg.grace_period_end \in {None, Some(1)} }

\* Runs of a process from SetUpProcess to TearDownProcess and on to another
\* SetUpProcess, with steps that raise, tests that pass and tests that fail,
\* and GetSkiaGoldSessionManager called at any time.
InitProcess == InitWith(IdentityOptions)

NextProcess ==
    \/ \E br \in ProcessBrowsers :
          \E fails_at \in {"", "super().SetUpProcess", "SetStaticServerDirs"} :
              SetUpProcess(br, fails_at)
    \/ \E super_fails \in BOOLEAN, stops \in BOOLEAN : TearDownProcess(super_fails, stops)
    \/ CallGetSkiaGoldSessionManager
    \/ \E pg \in ProcessPages, st \in {SUCCESS, COMPARISON_FAILURE_REMOTE}, later \in Days :
          \E gold_session \in Sessions(st) :
              CallUploadTestResultToSkiaGold(pg, st, "", gold_session, later)
    \/ ReturnToRunner

SpecProcess == InitProcess /\ [][NextProcess]_vars

\* --------------------------------------------------------------- properties

\* The call that ran last is _UploadTestResultToSkiaGold and RunComparison
\* returned a status to it.
Compared == call = "_UploadTestResultToSkiaGold" /\ status # None

\* ... and the status was truthy.
Failed == Compared /\ status[1] # 0

\* The grace period of the page of the last call is active on the day the
\* call ended.
InGracePeriod ==
    page[1].grace_period_end # None /\ today <= page[1].grace_period_end[1]

\* The positions of the log at which the policy was asked.
PolicyAt == { i \in 1..Len(log) : log[i].op = "_ShouldReportGoldFailure" }

\* The positions of the log that hold an error line or an artifact link.
DiagnosticsAt == { i \in 1..Len(log) : log[i].op \in {"logging.error", "CreateLink"} }

\* C1: _UploadTestResultToSkiaGold raises 'goldctl command failed, see above
\* for details' if and only if RunComparison returned a truthy status,
\* no_skia_gold_failure is unset and the page's grace period is not active;
\* for every other status, flag and grace period it returns normally.
C1_RaisesIffSurfaced ==
    call = "_UploadTestResultToSkiaGold" =>
        LET surfaced == /\ Failed
                        /\ ~ options.no_skia_gold_failure
                        /\ ~ InGracePeriod
        IN  /\ (outcome = GoldFailure) <=> surfaced
            /\ (Compared /\ ~ surfaced) => outcome = "return"

C1_Witness ==
    /\ Failed
    /\ status[1] = AUTH_FAILURE
    /\ ~ options.no_skia_gold_failure
    /\ page[1].grace_period_end # None
    /\ page[1].grace_period_end[1] < today
    /\ outcome = GoldFailure

\* C2: with no_skia_gold_failure set, _ShouldReportGoldFailure returns False
\* for every truthy status, whether the page has no grace period, an active
\* one or an expired one, and the call returns normally.
C2_BypassNeverSurfaces ==
    (Failed /\ options.no_skia_gold_failure) =>
        /\ PolicyAt # {}
        /\ \A i \in PolicyAt : log[i].args = <<"False">>
        /\ outcome = "return"

C2_Witness ==
    /\ Failed
    /\ options.no_skia_gold_failure
    /\ page[1].grace_period_end # None
    /\ page[1].grace_period_end[1] < today
    /\ outcome = "return"

\* C3: with no_skia_gold_failure unset and a truthy status, a page whose
\* grace_period_end is today is not surfaced, a page whose grace_period_end
\* is yesterday or earlier is surfaced, and a page without grace_period_end
\* is surfaced.
C3_GraceBoundaryAtEquality ==
    (Failed /\ ~ options.no_skia_gold_failure) =>
        LET grace_period_end == page[1].grace_period_end
        IN  /\ grace_period_end = Some(today) => outcome = "return"
            /\ (grace_period_end # None /\ grace_period_end[1] < today)
                   => outcome = GoldFailure
            /\ grace_period_end = None => outcome = GoldFailure

C3_Witness ==
    /\ Failed
    /\ ~ options.no_skia_gold_failure
    /\ page[1].grace_period_end = Some(today)
    /\ outcome = "return"

\* C4: for every truthy status the error lines or the artifact link of the
\* outcome are emitted before the policy is asked, which happens once, last:
\* they are emitted also when the failure is then suppressed.
C4_DiagnosticsBeforePolicy ==
    Failed =>
        /\ PolicyAt = {Len(log)}
        /\ DiagnosticsAt # {}
        /\ \A i \in DiagnosticsAt : \A j \in PolicyAt : i < j

C4_Witness ==
    /\ Failed
    /\ options.no_skia_gold_failure
    /\ outcome = "return"
    /\ log[Len(log) - 1].op = "logging.error"
    /\ log[Len(log)].op = "_ShouldReportGoldFailure"

\* C5: when RunComparison returns a falsy status the call returns normally
\* having emitted no error line, created no artifact link and not asked the
\* policy, whatever no_skia_gold_failure and the grace period are.
C5_PassIsSilent ==
    (Compared /\ status[1] = 0) =>
        /\ outcome = "return"
        /\ DiagnosticsAt = {}
        /\ PolicyAt = {}
        /\ log[Len(log)].op = "RunComparison"

C5_Witness ==
    /\ Compared
    /\ status[1] = 0
    /\ ~ options.no_skia_gold_failure
    /\ page[1].grace_period_end = None
    /\ outcome = "return"
    /\ log[Len(log)].op = "RunComparison"

\* A browser runs and reports a GPU device.
HasDevice ==
    /\ browser # None
    /\ browser[1].system_info # None
    /\ browser[1].system_info[1].gpu # None

\* The device the running browser reports.
ReportedDevice == browser[1].system_info[1].gpu[1].devices[1]

\* It reports a vendor id and a device id.
BothIds == ReportedDevice.vendor_id # 0 /\ ReportedDevice.device_id # 0

\* It reports a vendor string and a device string.
BothStrings == ReportedDevice.vendor_string # "" /\ ReportedDevice.device_string # ""

\* The last call was made by a test or on its own and built the identity.
BuiltIdentity ==
    /\ call \in {"GetImageParameters", "_UploadTestResultToSkiaGold"}
    /\ \E i \in 1..Len(log) : log[i].op = "_ComputeGpuInfo"

\* The cache holds the object that an incomplete device left there.
HalfBuilt ==
    /\ image_parameters # None
    /\ image_parameters[1].vendor_id = None
    /\ image_parameters[1].vendor_string = None

\* C6: when the device reports both ids, the identity carries them in
\* hexadecimal, vendor_string and device_string are "None" and the ids of the
\* software renderer are not used, whatever strings the device reports and
\* whether or not the page's GPU process is disabled; without workarounds msaa
\* is "True".
C6_IdsTakePrecedence ==
    (HasDevice /\ BothIds) =>
        /\ image_parameters # None =>
              /\ image_parameters[1].vendor_id = Some(ReportedDevice.vendor_id)
              /\ image_parameters[1].device_id = Some(ReportedDevice.device_id)
              /\ image_parameters[1].vendor_string = None
              /\ image_parameters[1].device_string = None
        /\ call = "_UploadTestResultToSkiaGold" =>
              /\ gpu_keys # None
              /\ gpu_keys[1].vendor_id =
                     (IF ReportedDevice.vendor_id = 32902 THEN "0x8086" ELSE "0x10de")
              /\ gpu_keys[1].device_id = "0x5912"
              /\ gpu_keys[1].vendor_string = "None"
              /\ gpu_keys[1].device_string = "None"
              /\ browser[1].system_info[1].gpu[1].driver_bug_workarounds = {}
                     => gpu_keys[1].msaa = "True"

C6_Witness ==
    /\ HasDevice
    /\ BothIds
    /\ BothStrings
    /\ BuiltIdentity
    /\ page[1].gpu_process_disabled
    /\ browser[1].system_info[1].gpu[1].driver_bug_workarounds = {}
    /\ gpu_keys # None
    /\ gpu_keys[1].vendor_id = "0x8086"
    /\ gpu_keys[1].device_id = "0x5912"
    /\ gpu_keys[1].msaa = "True"

\* C7: when the device does not report both ids but reports both strings, the
\* identity carries the two strings and vendor_id and device_id are "None",
\* also when the page's GPU process is disabled; the ids of the software
\* renderer are in the identity only when neither pair is complete.
C7_StringsBeforeSoftwareRenderer ==
    HasDevice =>
        /\ (~ BothIds /\ BothStrings) =>
              /\ image_parameters # None =>
                    /\ image_parameters[1].vendor_string = Some(ReportedDevice.vendor_string)
                    /\ image_parameters[1].device_string = Some(ReportedDevice.device_string)
                    /\ image_parameters[1].vendor_id = None
                    /\ image_parameters[1].device_id = None
              /\ call = "_UploadTestResultToSkiaGold" =>
                    /\ gpu_keys # None
                    /\ gpu_keys[1].vendor_string = ReportedDevice.vendor_string
                    /\ gpu_keys[1].device_string = ReportedDevice.device_string
                    /\ gpu_keys[1].vendor_id = "None"
                    /\ gpu_keys[1].device_id = "None"
        /\ (image_parameters # None /\ image_parameters[1].vendor_id = Some(65535))
              => (~ BothIds /\ ~ BothStrings)
        /\ (gpu_keys # None /\ gpu_keys[1].vendor_id = "0xffff")
              => (~ BothIds /\ ~ BothStrings)

C7_Witness ==
    /\ HasDevice
    /\ ReportedDevice.vendor_id # 0
    /\ ReportedDevice.device_id = 0
    /\ BothStrings
    /\ BuiltIdentity
    /\ page[1].gpu_process_disabled
    /\ gpu_keys # None
    /\ gpu_keys[1].vendor_string = "Intel"
    /\ gpu_keys[1].device_string = "HD 630"
    /\ gpu_keys[1].vendor_id = "None"

C9_IncompleteIsHardStop ==
    (/\ call = "GetImageParameters"
     /\ HasDevice /\ ~ BothIds /\ ~ BothStrings
     /\ ~ page[1].gpu_process_disabled
     /\ (image_parameters = None \/ image_parameters[1].vendor_id = None)) =>
        /\ outcome = IncompleteError
        /\ image_parameters = None

\* C10: once identity building has failed for an incomplete device, a test
\* ends with an error before RunComparison is called and without the policy
\* being asked, whatever no_skia_gold_failure and the grace period are: this
\* holds for the test in which building fails and for every later test of the
\* session.
C10_IncompleteAbortsBeforeComparison ==
    (call = "_UploadTestResultToSkiaGold"
         /\ (outcome = IncompleteError \/ HalfBuilt)) =>
        /\ status = None
        /\ gpu_keys = None
        /\ \A i \in 1..Len(log) : log[i].op # "RunComparison"
        /\ PolicyAt = {}
        /\ outcome \in {IncompleteError, NoneNotIterable}

C10_Witness ==
    /\ call = "_UploadTestResultToSkiaGold"
    /\ HalfBuilt
    /\ ~ BuiltIdentity
    /\ options.no_skia_gold_failure
    /\ page[1].grace_period_end = Some(today)
    /\ outcome = NoneNotIterable
    /\ status = None

\* first with the driver_version of cached.
WithDriverVersionOf(first, cached) ==
    [first EXCEPT !.driver_version = cached.driver_version]

CachedAngleDriver == Contains(image_parameters[1].driver_vendor[1], AngleChars)

\* The dot-separated parts of chars that are longer than 8 characters.
LongParts(chars) ==
    LET parts == Split(chars)
    IN  { i \in 1..Len(parts) : Len(parts[i]) > 8 }

\* C12 as stated: between _ComputeGpuInfo and the next reset, every field of
\* the cached object, driver_version included, keeps the value it had when
\* _ComputeGpuInfo finished.
C12_NeverMutatedInPlace ==
    built # None => image_parameters = built

\* C12, amended: between _ComputeGpuInfo and the next reset every field of
\* the cached object other than driver_version keeps the value it had when
\* _ComputeGpuInfo finished.  GetImageParameters changes no field.
\* GetGoldJsonKeys replaces driver_version on the cached object: for an ANGLE
\* driver whose version has a part longer than 8 characters the cached
\* version is from then on a leading part of it without such a part, and for
\* every other driver it is unchanged.
C12_OnlyDriverVersionIsReplaced ==
    built # None =>
        LET cached == image_parameters[1]
            first == built[1]
            stripped == cached.driver_version # first.driver_version
        IN  /\ \A f \in DOMAIN first \ {"driver_version"} : cached[f] = first[f]
            /\ (call = "GetImageParameters" /\ BuiltIdentity) => ~ stripped
            /\ stripped =>
                   /\ CachedAngleDriver
                   /\ LongParts(first.driver_version[1]) # {}
                   /\ LongParts(cached.driver_version[1]) = {}
                   /\ StartsWith(first.driver_version[1], cached.driver_version[1])
            /\ (gpu_keys # None /\ CachedAngleDriver
                    /\ LongParts(first.driver_version[1]) # {}) => stripped

\* A test has stripped the driver version of an identity that an earlier call
\* had left in the cache.
C12_Witness ==
    /\ call = "_UploadTestResultToSkiaGold"
    /\ ~ BuiltIdentity
    /\ gpu_keys # None
    /\ built # None
    /\ image_parameters[1].driver_version # built[1].driver_version
    /\ image_parameters[1].driver_version = Some(<<"2", ".", "1", ".", "0">>)

\* The cached object was computed from the device the running browser
\* reports.
FromReportedDevice ==
    LET cached == image_parameters[1]
        system_info == browser[1].system_info[1]
    IN  /\ HasDevice
        /\ cached.driver_vendor = Some(ReportedDevice.driver_vendor)
        /\ StartsWith(ReportedDevice.driver_version, cached.driver_version[1])
        /\ cached.model_name = Some(system_info.model_name)
        /\ cached.msaa = (system_info.gpu[1].driver_bug_workarounds
                             \cap {"disable_chromium_framebuffer_multisample",
                                   "disable_multisample_render_to_texture"} = {})
        /\ BothIds =>
               /\ cached.vendor_id = Some(ReportedDevice.vendor_id)
               /\ cached.device_id = Some(ReportedDevice.device_id)
        /\ (~ BothIds /\ BothStrings) =>
               /\ cached.vendor_string = Some(ReportedDevice.vendor_string)
               /\ cached.device_string = Some(ReportedDevice.device_string)
        /\ (~ BothIds /\ ~ BothStrings) => cached.vendor_id = Some(65535)

\* C13: after StopBrowser the cache is empty, so no identity outlives its
\* browser: an identity that GetImageParameters returns while a later browser
\* runs was computed from the device that browser reports.
C13_StopBrowserInvalidates ==
    /\ call = "StopBrowser" => image_parameters = None
    /\ browser = None => image_parameters = None
    /\ (image_parameters # None /\ ~ HalfBuilt) => FromReportedDevice

\* StopBrowser has removed an identity from the cache.
C13_Witness ==
    /\ call = "StopBrowser"
    /\ dropped # None
    /\ dropped[1].vendor_id = Some(4318)
    /\ browser = None
    /\ image_parameters = None

\* _StripAngleRevisionFromDriver has been applied to the cached object, whose
\* driver vendor is a string.
Stripped == call = "_StripAngleRevisionFromDriver" /\ outcome = "return"

\* C14: applying _StripAngleRevisionFromDriver to an object it has been
\* applied to changes nothing, whatever the driver vendor and version, and
\* applying it leaves driver_version as it was when the driver vendor does
\* not contain 'ANGLE' or the driver version is empty.
C14_StrippingIsIdempotent ==
    Stripped =>
        /\ StripAngleRevisionFromDriver(image_parameters[1]).params = image_parameters[1]
        /\ built[1].driver_vendor[1] \in AngleVendors =>
               LongParts(image_parameters[1].driver_version[1]) = {}
        /\ (built[1].driver_vendor[1] \in OtherVendors
                \/ built[1].driver_version = Some(<<>>)) =>
               image_parameters = built

\* It has been applied twice to an ANGLE version whose second part is the
\* first that is longer than 8 characters.
C14_Witness ==
    /\ Stripped
    /\ Len(log) = 2
    /\ built[1].driver_vendor[1] \in AngleVendors
    /\ built[1].driver_version = Some(Join(<<Part(1), Part(9), Part(8)>>))
    /\ image_parameters[1].driver_version = Some(Part(1))

\* _StripAngleRevisionFromDriver has been applied to an ANGLE driver with a
\* version.
StrippedAngle ==
    /\ Stripped
    /\ built[1].driver_vendor[1] \in AngleVendors
    /\ built[1].driver_version # Some(<<>>)

\* C15 as stated: for an ANGLE driver the stripped version consists of every
\* part of at most 8 characters of the original version, in order.
C15_ShortPartsAreKept ==
    StrippedAngle =>
        image_parameters[1].driver_version =
            Some(Join(SelectSeq(Split(built[1].driver_version[1]), ShortPart)))

\* C15, amended: for an ANGLE driver the stripped version consists of the
\* parts that precede the first part longer than 8 characters, in order; that
\* part and every part after it, of whatever length, are removed, and a
\* version without such a part is left as it is.
C15_KeepsPartsBeforeFirstLong ==
    StrippedAngle =>
        LET driver_parts == Split(built[1].driver_version[1])
        IN  \E k \in 0..Len(driver_parts) :
               /\ image_parameters[1].driver_version =
                      Some(Join(SubSeq(driver_parts, 1, k)))
               /\ \A j \in 1..k : Len(driver_parts[j]) <= 8
               /\ k < Len(driver_parts) => Len(driver_parts[k + 1]) > 8
               /\ k = Len(driver_parts) =>
                      image_parameters[1].driver_version = built[1].driver_version

\* 2.1.0.b50541b2d6c4 has become 2.1.0.
C15_Witness ==
    /\ StrippedAngle
    /\ Len(log) = 1
    /\ built[1].driver_version = Some(Chars("2.1.0.b50541b2d6c4"))
    /\ image_parameters[1].driver_version = Some(<<"2", ".", "1", ".", "0">>)

\* hex() of the ids that occur.
HexOf(id) ==
    CASE id = None -> "None"
      [] id = Some(32902) -> "0x8086"
      [] id = Some(4318) -> "0x10de"
      [] id = Some(22802) -> "0x5912"
      [] id = Some(65535) -> "0xffff"

\* C16: every value of a key set that GetGoldJsonKeys returns is a non-empty
\* string: a field that is None or empty is rendered as "None", a string
\* field as itself, and a vendor or device id as lowercase hexadecimal with
\* the 0x prefix.
C16_KeysAreNonEmptyStrings ==
    gpu_keys # None =>
        LET keys == gpu_keys[1]
            cached == image_parameters[1]
        IN  /\ \A k \in DOMAIN keys : keys[k] # ""
            /\ keys.vendor_id = HexOf(cached.vendor_id)
            /\ keys.device_id = HexOf(cached.device_id)
            /\ keys.vendor_string =
                   (IF cached.vendor_string = None THEN "None"
                    ELSE cached.vendor_string[1])
            /\ keys.device_string =
                   (IF cached.device_string = None THEN "None"
                    ELSE cached.device_string[1])
            /\ cached.model_name = Some("") => keys.model_name = "None"
            /\ browser[1].platform.os_version_detail_string = "" =>
                   keys.os_version_detail_string = "None"
            /\ keys.os = browser[1].platform.os_name
            /\ cached.driver_version = Some(<<>>) <=> keys.driver_version = "None"
            /\ cached.driver_vendor = Some(<<>>) <=> keys.driver_vendor = "None"
            /\ keys.msaa \in {"True", "False"}

\* A key set whose ids are the sentinel in hexadecimal and whose strings,
\* model name and stripped driver version are rendered as "None".
C16_Witness ==
    /\ gpu_keys # None
    /\ gpu_keys[1].vendor_id = "0xffff"
    /\ gpu_keys[1].vendor_string = "None"
    /\ gpu_keys[1].model_name = "None"
    /\ gpu_keys[1].driver_version = "None"
    /\ gpu_keys[1].driver_vendor = "ANGLE"
    /\ gpu_keys[1].combined_hardware_identifier # ""

\* The days that date.today() returned to the last call before RunComparison
\* was called.
DaysReadForKeys ==
    { d \in 1..9 :
        \E i \in 1..Len(log) :
            /\ log[i] = Event("date.today", "", << <<"1", "2", "3", "4", "5", "6", "7", "8", "9">>[d] >>)
            /\ \A j \in 1..i : log[j].op # "RunComparison" }

\* C17: the key set that GetGoldJsonKeys returns holds 'ignore' exactly when
\* the page passed to the call has a grace_period_end that is not before the
\* date read in that call, and then with the value '1'; the identity in the
\* cache, whichever test computed it, has no part in this.
C17_IgnoreIffGracePeriodActive ==
    gpu_keys # None =>
        LET grace_period_end == page[1].grace_period_end
            marked == "ignore" \in DOMAIN gpu_keys[1]
        IN  /\ grace_period_end = None => (~ marked /\ DaysReadForKeys = {})
            /\ grace_period_end # None =>
                   \E d \in {today - 1, today} :
                      /\ DaysReadForKeys = {d}
                      /\ marked <=> d <= grace_period_end[1]
            /\ marked => gpu_keys[1]["ignore"] = "1"

\* A test that found the identity in the cache got the marker for a page whose
\* grace period ended on the day the key set was built, which was the day
\* before the call ended.
C17_Witness ==
    /\ call = "_UploadTestResultToSkiaGold"
    /\ ~ BuiltIdentity
    /\ gpu_keys # None
    /\ "ignore" \in DOMAIN gpu_keys[1]
    /\ page[1].grace_period_end = Some(today - 1)

\* The positions of the log that hold an artifact link.
LinksAt == { i \in 1..Len(log) : log[i].op = "CreateLink" }

\* The positions of the log that hold the error line fmt % args.
ErrorLinesAt(fmt, args) ==
    { i \in 1..Len(log) : log[i] = [op |-> "logging.error", what |-> fmt, args |-> args] }

\* C18: a call creates an artifact link only for COMPARISON_FAILURE_REMOTE
\* with a triage link, and then exactly one, holding that link and named
\* 'triage_link_for_entire_cl' on a tryjob run and 'gold_triage_link'
\* otherwise; without a triage link it logs the omission reason and creates
\* no link.
C18_OneTriageLinkOnRemoteMismatch ==
    call = "_UploadTestResultToSkiaGold" =>
        IF Failed /\ status[1] = COMPARISON_FAILURE_REMOTE
        THEN LET triage_link == answer[1].gold_session.triage_link
                 name == IF options.tryjob THEN "triage_link_for_entire_cl"
                         ELSE "gold_triage_link"
             IN  IF triage_link # None
                 THEN /\ Cardinality(LinksAt) = 1
                      /\ \A i \in LinksAt :
                             log[i] = [op |-> "CreateLink", what |-> name,
                                       args |-> <<triage_link[1]>>]
                 ELSE /\ LinksAt = {}
                      /\ ErrorLinesAt("Reason for no triage link: %s",
                                      <<answer[1].gold_session.omission_reason>>) # {}
        ELSE LinksAt = {}

\* A tryjob run has created the link for the entire CL.
C18_Witness ==
    /\ Failed
    /\ status[1] = COMPARISON_FAILURE_REMOTE
    /\ options.tryjob
    /\ answer[1].gold_session.triage_link = Some("https://gold/triage")
    /\ \E i \in LinksAt : log[i].what = "triage_link_for_entire_cl"

\* The positions of the log that hold one of the three lines of
\* _OutputLocalDiffFiles.
LinkLinesAt ==
    { i \in 1..Len(log) :
        /\ log[i].op = "logging.error"
        /\ log[i].what \in {"Generated image: %s", "Closest image: %s",
                             "Diff image: %s"} }

\* What a line shows for a link of the session.
Shown(link) == IF link = None THEN "Unable to retrieve link" ELSE link[1]

\* C19: for COMPARISON_FAILURE_LOCAL and LOCAL_DIFF_FAILURE the call logs
\* three link lines next to each other, for the generated, the closest and
\* the diff image in this order, each with the link of the session or with
\* 'Unable to retrieve link'; for LOCAL_DIFF_FAILURE the line with the error
\* text of the diff generation comes before them.
C19_ThreeLocalLinkLines ==
    (Failed /\ status[1] \in {COMPARISON_FAILURE_LOCAL, LOCAL_DIFF_FAILURE}) =>
        LET gold_session == answer[1].gold_session
        IN  /\ Cardinality(LinkLinesAt) = 3
            /\ \E i \in LinkLinesAt :
                   /\ LinkLinesAt = {i, i + 1, i + 2}
                   /\ log[i].what = "Generated image: %s"
                   /\ log[i].args = <<Shown(gold_session.given_file)>>
                   /\ log[i + 1].what = "Closest image: %s"
                   /\ log[i + 1].args = <<Shown(gold_session.closest_file)>>
                   /\ log[i + 2].what = "Diff image: %s"
                   /\ log[i + 2].args = <<Shown(gold_session.diff_file)>>
                   /\ status[1] = LOCAL_DIFF_FAILURE =>
                          \E j \in ErrorLinesAt("Local comparison failed and an error occurred during diff generation: %s", <<answer[1].error>>) :
                              j < i

\* A diff error whose session has the generated image only.
C19_Witness ==
    /\ Failed
    /\ status[1] = LOCAL_DIFF_FAILURE
    /\ answer[1].error = "goldctl output"
    /\ answer[1].gold_session.given_file # None
    /\ answer[1].gold_session.closest_file = None
    /\ answer[1].gold_session.diff_file = None
    /\ Cardinality(LinkLinesAt) = 3

\* C20: a truthy status code that is none of the five the chain names gets
\* one error line that holds the code and the error text as they came, and
\* the policy is asked afterwards: the call raises unless
\* no_skia_gold_failure is set or the grace period is active.
C20_UnknownStatusIsLoggedAndJudged ==
    (Failed /\ status[1] \notin {AUTH_FAILURE, INIT_FAILURE, COMPARISON_FAILURE_REMOTE,
                                  COMPARISON_FAILURE_LOCAL, LOCAL_DIFF_FAILURE}) =>
        LET code == <<"1", "2", "3", "4", "5", "6", "7", "8", "9">>[status[1]]
            lines == ErrorLinesAt("Given unhandled SkiaGoldSession StatusCode %s with error %s",
                                  <<code, answer[1].error>>)
        IN  /\ Cardinality(lines) = 1
            /\ DiagnosticsAt = lines
            /\ PolicyAt = {Len(log)}
            /\ \A i \in lines : i < Len(log)
            /\ (outcome = GoldFailure)
                   <=> (~ options.no_skia_gold_failure /\ ~ InGracePeriod)
            /\ outcome \in {GoldFailure, "return"}

\* An unknown status code has been logged and has made the test fail.
C20_Witness ==
    /\ Failed
    /\ status[1] = 7
    /\ answer[1].error = "goldctl output"
    /\ outcome = GoldFailure
    /\ DiagnosticsAt # {}

\* The positions of the log at which RunComparison was called.
ComparisonsAt == { i \in 1..Len(log) : log[i].op = "RunComparison" }

\* C21: a call of _UploadTestResultToSkiaGold calls RunComparison once, or
\* not at all when it ends before the comparison; whatever status comes
\* back, what follows is the error lines or link of that status and the
\* question to the policy, and no further comparison.
C21_OneComparisonPerCall ==
    call = "_UploadTestResultToSkiaGold" =>
        /\ Cardinality(ComparisonsAt) = (IF status = None THEN 0 ELSE 1)
        /\ Failed =>
               /\ PolicyAt = {Len(log)}
               /\ \A i \in ComparisonsAt :
                      \A j \in (i + 1)..Len(log) :
                          log[j].op \in {"logging.error", "CreateLink",
                                         "_ShouldReportGoldFailure"}
        /\ (Compared /\ ~ Failed) => ComparisonsAt = {Len(log)}

\* A remote mismatch has made the test fail after one comparison.
C21_Witness ==
    /\ Failed
    /\ status[1] = COMPARISON_FAILURE_REMOTE
    /\ outcome = GoldFailure
    /\ Cardinality(ComparisonsAt) = 1

\* C22: after TearDownProcess no directory that SetUpProcess made with
\* tempfile.mkdtemp() exists, whatever the tests between them did and
\* whichever step of SetUpProcess or TearDownProcess raised.
C22_NoScratchDirAfterTearDown ==
    process = "down" => disk = {}

\* The positions of the log at which the screenshot was written to a file.
WritesAt == { i \in 1..Len(log) : log[i].op = "WritePngFile" }

\* C23: a call that gets as far as RunComparison has written the screenshot
\* before, once, to a file in the directory that SetUpProcess made and that
\* still exists, and RunComparison is given the path of that file.
C23_PngWrittenBeforeComparison ==
    Compared =>
        /\ skia_gold_temp_dir # None
        /\ skia_gold_temp_dir[1] \in disk
        /\ \E i \in WritesAt :
               /\ WritesAt = {i}
               /\ log[i].what = "/tmp/tmp"
                      \o <<"1", "2", "3", "4", "5", "6", "7", "8", "9">>[skia_gold_temp_dir[1]]
                      \o "/tmpa.png"
               /\ \A j \in ComparisonsAt : i < j /\ log[j].args[1] = log[i].what

\* A comparison in the second scratch directory of the process.
C23_Witness ==
    /\ Compared
    /\ skia_gold_temp_dir = Some(2)
    /\ disk = {2}
    /\ \E j \in ComparisonsAt : log[j].args[1] = "/tmp/tmp2/tmpa.png"

\* The two workarounds that turn multisampling off.
MsaaWorkarounds ==
    {"disable_chromium_framebuffer_multisample",
     "disable_multisample_render_to_texture"}

\* The workarounds the running browser reports.
ReportedWorkarounds == browser[1].system_info[1].gpu[1].driver_bug_workarounds

\* C24: the msaa field of a built identity is true exactly when the browser
\* reports neither 'disable_chromium_framebuffer_multisample' nor
\* 'disable_multisample_render_to_texture' among its driver bug workarounds,
\* and the key 'msaa' is 'True' or 'False' accordingly.
C24_MsaaIffNoWorkaround ==
    /\ (image_parameters # None /\ ~ HalfBuilt) =>
           /\ HasDevice
           /\ image_parameters[1].msaa <=> (ReportedWorkarounds \cap MsaaWorkarounds = {})
    /\ gpu_keys # None =>
           /\ gpu_keys[1].msaa = "True" <=> (ReportedWorkarounds \cap MsaaWorkarounds = {})
           /\ gpu_keys[1].msaa = "False" <=> (ReportedWorkarounds \cap MsaaWorkarounds # {})

\* A key set built for a browser that reports the second of the two
\* workarounds only, next to an unrelated one.
C24_Witness ==
    /\ gpu_keys # None
    /\ gpu_keys[1].msaa = "False"
    /\ ~ image_parameters[1].msaa
    /\ ReportedWorkarounds = {"disable_multisample_render_to_texture", "other_workaround"}

\* The events of the log after the comparison.
AfterRunComparison ==
    LET at == CHOOSE i \in ComparisonsAt : \A j \in ComparisonsAt : j <= i
    IN  SubSeq(log, at + 1, Len(log))

\* The option sets that differ from the given one in --local-pixel-tests and
\* --no-luci-auth at most.
SameButCredentials ==
    { o \in AllOptions : /\ o.no_skia_gold_failure = options.no_skia_gold_failure
                         /\ o.tryjob = options.tryjob }

\* C25: RunComparison is told to use the ambient credentials exactly when
\* the run is neither in local mode nor has --no-luci-auth, and which
\* credentials are used has no part in what follows: for the status and
\* message that came back, the diagnostics and the pass/fail decision are the
\* same under every setting of the two options.
C25_CredentialsDoNotChangeOutcome ==
    Compared =>
        /\ \A i \in ComparisonsAt :
               log[i].args[2] = "True"
                   <=> (~ options.local_pixel_tests /\ ~ options.no_luci_auth)
        /\ \A i \in ComparisonsAt : log[i].args[2] \in {"True", "False"}
        /\ \A o \in SameButCredentials :
               AfterComparison(o, page[1], today, status[1], answer[1].error,
                               "image_name", answer[1].gold_session)
                  = [outcome |-> outcome, log |-> AfterRunComparison]

\* A failed comparison of a run that is not local and has --no-luci-auth.
C25_Witness ==
    /\ Failed
    /\ outcome = GoldFailure
    /\ ~ options.local_pixel_tests
    /\ options.no_luci_auth
    /\ \E i \in ComparisonsAt : log[i].args[2] = "False"
    /\ AfterRunComparison # <<>>

\* The fields of the cached identity that are set.
PopulatedFields ==
    { f \in {"vendor_id", "device_id", "vendor_string", "device_string"} :
        image_parameters[1][f] # None }

\* C26: the cached identity has either both ids and no string, or both
\* strings and no id; it never mixes the two pairs and never has all four
\* unset.
C26_ExactlyOnePairPopulated ==
    image_parameters # None =>
        \/ PopulatedFields = {"vendor_id", "device_id"}
        \/ PopulatedFields = {"vendor_string", "device_string"}

\* C27: when a comparison did not pass and --no-skia-gold-failure is not
\* given, the key set sent to the service holds 'ignore' exactly when the
\* call returns without raising the failure.
C27_IgnoreAgreesWithSuppression ==
    (Failed /\ ~ options.no_skia_gold_failure) =>
        (("ignore" \in DOMAIN gpu_keys[1]) <=> outcome = "return")

\* C28: whenever a comparison ran, the session manager of the process was
\* constructed with the scratch directory the process has now, which is set
\* and exists.
C28_ManagerUsesCurrentScratchDir ==
    Compared =>
        /\ skia_gold_session_manager # None
        /\ skia_gold_temp_dir # None
        /\ skia_gold_temp_dir[1] \in disk
        /\ skia_gold_session_manager[1].working_dir = skia_gold_temp_dir

\* The positions of a list of arguments that hold a colour profile: the
\* first 22 characters are '--force-color-profile='.
ColourProfilesAt(args) ==
    { i \in 1..Len(args) :
        /\ Len(args[i]) >= 22
        /\ SubSeq(args[i], 1, 22) = SubSeq(FORCE_COLOR_PROFILE_SRGB, 1, 22) }

\* C29: the list GenerateBrowserArgs returns is the list of the parent
\* class, which ends with the arguments of the caller, followed by
\* --enable-gpu-benchmarking and --test-type=gpu, and then by
\* --force-color-profile=srgb and --ensure-forced-color-profile exactly when
\* the list of the parent class holds no argument that starts with
\* '--force-color-profile='; so the method adds at most one colour profile,
\* and none when the caller passed one.
C29_SrgbForcedUnlessProfileGiven ==
    call = "GenerateBrowserArgs" =>
        LET before == log[1].args
            result == browser_args[1]
            n == Len(before)
            m == Len(additional_args)
            appended == SubSeq(result, n + 1, Len(result))
        IN  /\ SubSeq(result, 1, n) = before
            /\ SubSeq(before, n - m + 1, n) = additional_args
            /\ ColourProfilesAt(before) = {} =>
                   /\ appended = << <<"-", "-", "e", "n", "a", "b", "l", "e", "-", "g", "p", "u", "-", "b", "e", "n", "c", "h", "m", "a", "r", "k", "i", "n", "g">>,
                                    <<"-", "-", "t", "e", "s", "t", "-", "t", "y", "p", "e", "=", "g", "p", "u">>,
                                    <<"-", "-", "f", "o", "r", "c", "e", "-", "c", "o", "l", "o", "r", "-", "p", "r", "o", "f", "i", "l", "e", "=", "s", "r", "g", "b">>,
                                    <<"-", "-", "e", "n", "s", "u", "r", "e", "-", "f", "o", "r", "c", "e", "d", "-", "c", "o", "l", "o", "r", "-", "p", "r", "o", "f", "i", "l", "e">> >>
                   /\ Cardinality(ColourProfilesAt(result)) = 1
            /\ ColourProfilesAt(before) # {} =>
                   /\ appended = << <<"-", "-", "e", "n", "a", "b", "l", "e", "-", "g", "p", "u", "-", "b", "e", "n", "c", "h", "m", "a", "r", "k", "i", "n", "g">>,
                                    <<"-", "-", "t", "e", "s", "t", "-", "t", "y", "p", "e", "=", "g", "p", "u">> >>
                   /\ ColourProfilesAt(result) = ColourProfilesAt(before)
            /\ ColourProfilesAt(additional_args) # {} => Len(appended) = 2

\* A caller that passes another colour profile, after the switch without a
\* value, gets its list back with the two arguments that are always appended.
C29_Witness ==
    /\ call = "GenerateBrowserArgs"
    /\ additional_args = << <<"-", "-", "f", "o", "r", "c", "e", "-", "c", "o", "l", "o", "r", "-", "p", "r", "o", "f", "i", "l", "e">>,
                            <<"-", "-", "f", "o", "r", "c", "e", "-", "c", "o", "l", "o", "r", "-", "p", "r", "o", "f", "i", "l", "e", "=", "h", "d", "r", "1", "0">> >>
    /\ Len(browser_args[1]) = 4
    /\ browser_args[1][2] = additional_args[2]

====
